---- MODULE Spec2Model ----
(***************************************************************************)
(* Model of two libsigrokdecode protocol decoders:                         *)
(*   decoders/pwm/pd.py      duty cycle / period measurement               *)
(*   decoders/ir_irmp/pd.py  IR frames, demodulated by the IRMP library    *)
(*                                                                         *)
(* A decoder's decode() is one thread that blocks in self.wait(...).  The  *)
(* engine delivers the capture one sample at a time; a sample that meets   *)
(* the condition of the pending wait resumes decode(), which runs to its   *)
(* next wait.  The end of the capture ends the thread while it waits.      *)
(*                                                                         *)
(* Python floats are modelled as exact rationals <<n, d>> in lowest terms. *)
(***************************************************************************)
EXTENDS Integers, Sequences, FiniteSets, TLC

VARIABLES
    pwm,        \* the pwm Decoder instance, its position in decode(), its outputs
    ir,         \* the ir_irmp Decoder instance, the library behind it, its outputs
    samples,    \* the samples the engine has delivered in the current run
    options,    \* options['polarity'], resolved before the run starts
    run         \* number of the current decode run of the instance

vars == <<pwm, ir, samples, options, run>>

----------------------------------------------------------------------------
(* Bounds of the model. *)

\* Longest capture (in samples) delivered in one run.
MaxSamples == 6

\* Number of decode runs one instance is used for.
MaxRuns == 2

\* Longest capture (in samples) delivered to the ir_irmp decoder.
MaxIrSamples == 5

----------------------------------------------------------------------------
(* Values *)

\* Python's None, for the sample-number fields that hold None or an index >= 0.
None == -1

\* An attribute that was never assigned (self.samplerate before metadata()).
NoAttr == -2

Bit == {0, 1}

Polarities == {"active-low", "active-high"}

\* Sample rates the host may report: 0 (unknown), 1 Hz, 2 kHz.
PwmRates == {0, 1, 2000}

Abs(x) == IF x < 0 THEN -x ELSE x

Min(a, b) == IF a < b THEN a ELSE b

RECURSIVE GCD(_, _)
GCD(a, b) == IF b = 0 THEN a ELSE GCD(b, a % b)

\* The rational n/d (d > 0) in lowest terms.
Rat(n, d) == LET g == GCD(Abs(n), d) IN <<n \div g, d \div g>>

RatAdd(a, b) == Rat(a[1] * b[2] + b[1] * a[2], a[2] * b[2])

RatMulInt(a, k) == Rat(a[1] * k, a[2])

RatDivInt(a, k) == Rat(a[1], a[2] * k)

RatEq(a, b) == a[1] * b[2] = b[1] * a[2]

\* int(x) of a float: truncation towards zero.
Trunc(a) == IF a[1] >= 0 THEN a[1] \div a[2] ELSE -((-a[1]) \div a[2])

\* What '%.<digits>f' prints of a >= 0, as the integer a * scale rounded half
\* to even (scale = 10^digits): '%.1f' of 2.25 is "2.2", here 22.
Fmt(a, scale) ==
    LET q == (a[1] * scale) \div a[2]
        r == (a[1] * scale) % a[2]
    IN  IF 2 * r > a[2] \/ (2 * r = a[2] /\ q % 2 = 1) THEN q + 1 ELSE q

\* k * 10^e <= n, without forming 10^e (k >= 1).
RECURSIVE ScaledLeq(_, _, _)
ScaledLeq(k, n, e) ==
    IF k > n THEN FALSE
    ELSE IF e = 0 THEN TRUE
    ELSE ScaledLeq(k * 10, n, e - 1)

----------------------------------------------------------------------------
(* decoders/pwm/pd.py *)

\* The instance after __init__.  pc is the place decode() is at: "init"
\* (not started), "L97", "L99", "L105" (blocked in the wait of that line),
\* "done" (the capture ended), "error" (an exception ended decode()).
\* out_ann, out_binary and out_average are the records put on the three
\* outputs in the current run.
PwmNew ==
    [pc |-> "init", err |-> "none",
     samplerate |-> NoAttr, startedge |-> NoAttr,
     ss_block |-> None, es_block |-> None,
     first_samplenum |-> None, start_samplenum |-> None,
     end_samplenum |-> None,
     num_cycles |-> 0, average |-> <<0, 1>>,
     samplenum |-> 0,
     out_ann |-> <<>>, out_binary |-> <<>>, out_average |-> <<>>]

\* metadata(key, value) with key = SRD_CONF_SAMPLERATE.
metadata(d, value) == [d EXCEPT !.samplerate = value]

\* start(): the start edge from the polarity option; the outputs are
\* registered anew.
start(d, polarity) ==
    [d EXCEPT !.startedge = IF polarity = "active-low" THEN 0 ELSE 1,
              !.out_ann = <<>>, !.out_binary = <<>>, !.out_average = <<>>,
              !.pc = "L97"]

\* An exception leaves decode().
Raise(d, e) == [d EXCEPT !.pc = "error", !.err = e]

putx(d, data) ==
    [d EXCEPT !.out_ann = Append(@,
        [ss |-> d.ss_block, es |-> d.es_block,
         cls |-> data.cls, txt |-> data.txt, unit |-> data.unit])]

\* The text of a period: the unit chosen, and what '%.1f' prints, in tenths.
PeriodText(period_t) ==
    LET n == period_t[1]
        m == period_t[2]
        In(unit, mul) == [cls |-> 1, txt |-> Fmt(Rat(n * mul, m), 10), unit |-> unit]
    IN  IF n = 0 \/ n >= m THEN In("s", 1)
        ELSE IF ScaledLeq(n, m, 12) THEN In("fs", 10^15)
        ELSE IF ScaledLeq(n, m, 9) THEN In("ps", 10^12)
        ELSE IF ScaledLeq(n, m, 6) THEN In("ns", 10^9)
        ELSE IF ScaledLeq(n, m, 3) THEN In("us", 10^6)
        ELSE In("ms", 10^3)

\* The period annotation begun at the boundary inside the cycle.
putpFromBoundary(d, period_t) ==
    [d EXCEPT !.out_ann = Append(@,
        [ss |-> d.end_samplenum, es |-> d.es_block] @@ PeriodText(period_t))]

putp(d, period_t) ==
    [d EXCEPT !.out_ann = Append(@,
        [ss |-> d.ss_block, es |-> d.es_block] @@ PeriodText(period_t))]

putb(d, data) ==
    [d EXCEPT !.out_binary = Append(@,
        [ss |-> d.num_cycles, es |-> d.num_cycles, cls |-> data[1], byte |-> data[2]])]

\* The ratio taken of the other part of the cycle.
RatioOfRest(duty, period) == Rat(period - duty, period)

\* ratio = float(duty / period)
Ratio(duty, period) == Rat(duty, period)

\* percent = float(ratio * 100)
Percent(ratio) == RatMulInt(ratio, 100)

\* The ratio scaled to 255 in place of 256.
RatioByte255(ratio) == Trunc(RatMulInt(ratio, 255))

\* int(ratio * 256)
RatioByte(ratio) == Trunc(RatMulInt(ratio, 256))

\* '%f%%' % percent, in millionths of a percent.
PercentText(percent) == [cls |-> 0, txt |-> Fmt(percent, 10^6), unit |-> "%"]

\* The running average after one more cycle: [num_cycles, average, value put].
Average(d, percent) ==
    LET n == d.num_cycles + 1
        a == RatAdd(d.average, percent)
    IN  [num_cycles |-> n, average |-> a, value |-> RatDivInt(a, n)]

\* The first edge taken as the start whatever its polarity.
FirstEdgeAny(d, pin, sn) ==
    [d EXCEPT !.samplenum = sn, !.first_samplenum = sn,
              !.start_samplenum = sn, !.pc = "L105"]

\* Lines 96-101: the first edge.  An edge of the other polarity is followed
\* by a second wait.
FirstEdge(d, pin, sn) ==
    IF pin # d.startedge
    THEN [d EXCEPT !.samplenum = sn, !.pc = "L99"]
    ELSE [d EXCEPT !.samplenum = sn, !.first_samplenum = sn,
                   !.start_samplenum = sn, !.pc = "L105"]

\* The second edge taken for the start of the cycle only.
SecondEdgeNotFirst(d, pin, sn) ==
    [d EXCEPT !.samplenum = sn, !.start_samplenum = sn, !.pc = "L105"]

\* Lines 99-101: the edge after a first edge of the other polarity.
SecondEdge(d, pin, sn) ==
    [d EXCEPT !.samplenum = sn, !.first_samplenum = sn,
              !.start_samplenum = sn, !.pc = "L105"]

\* Lines 107-136: an edge of the start polarity closes a cycle.
RisingEdge(d, sn) ==
    LET d0 == [d EXCEPT !.samplenum = sn] IN
    IF d.end_samplenum = None THEN Raise(d0, "TypeError")
    ELSE
    LET period == sn - d.start_samplenum
        duty   == d.end_samplenum - d.start_samplenum
    IN
    IF period = 0 THEN Raise(d0, "ZeroDivisionError")
    ELSE
    LET ratio   == Ratio(duty, period)
        d1      == [d0 EXCEPT !.ss_block = d.start_samplenum,
                              !.start_samplenum = sn, !.es_block = sn]
        percent == Percent(ratio)
        d2      == putx(d1, PercentText(percent))
        byte    == RatioByte(ratio)
    IN
    IF byte \notin 0..255 THEN Raise(d2, "ValueError")
    ELSE
    LET d3 == putb(d2, <<0, byte>>) IN
    IF d.samplerate = NoAttr THEN Raise(d3, "AttributeError")
    ELSE IF d.samplerate = 0 THEN Raise(d3, "ZeroDivisionError")
    ELSE
    LET d4  == putp(d3, Rat(period, d.samplerate))
        avg == Average(d4, percent)
    IN  [d4 EXCEPT !.num_cycles = avg.num_cycles,
                   !.average = avg.average,
                   !.out_average = Append(@,
                       [ss |-> d4.first_samplenum, es |-> d4.es_block,
                        value |-> avg.value])]

\* The edge of the other polarity taken for the start of an interval too.
FallingEdgeMovesStart(d, sn) ==
    [d EXCEPT !.samplenum = sn, !.end_samplenum = sn, !.ss_block = sn,
              !.start_samplenum = sn]

\* The edge of the other polarity leaving the boundary where it was.
FallingEdgeNoBoundary(d, sn) ==
    [d EXCEPT !.samplenum = sn, !.ss_block = sn]

\* Lines 137-139: an edge of the other polarity.
FallingEdge(d, sn) ==
    [d EXCEPT !.samplenum = sn, !.end_samplenum = sn, !.ss_block = sn]

\* decode() resumed by an edge at sample sn, the pin being `pin` after it.
Resume(d, pin, sn) ==
    CASE d.pc = "L97"  -> FirstEdge(d, pin, sn)
      [] d.pc = "L99"  -> SecondEdge(d, pin, sn)
      [] d.pc = "L105" -> IF pin = d.startedge THEN RisingEdge(d, sn)
                          ELSE FallingEdge(d, sn)
      [] OTHER         -> d

\* The capture ends while decode() waits.
EndWait(d) == [d EXCEPT !.pc = "done"]

----------------------------------------------------------------------------
(* The engine: wait({0: 'e'}) *)

PwmWaiting == pwm.pc \in {"L97", "L99", "L105"}

\* The sample delivered next has the index Len(samples); it is an edge when
\* it differs from the sample before it.
IsEdge(s, b) == Len(s) > 0 /\ b # s[Len(s)]

----------------------------------------------------------------------------
(* decoders/ir_irmp/irmp_library.py: the IRMP library behind the decoder.   *)
(* Only its interface is modelled: it counts the samples it is given, at    *)
(* its own sample rate, and now and then reports a complete frame.          *)

\* get_sample_rate(): the library's fixed sample rate.
IrmpRate == 2

\* Frames the library detects in one capture, at most.
MaxFrames == 1

\* IrmpLibrary(), and reset_state(): no sample seen, no frame detected.
\* bits are the samples given to add_one_sample, results the frames that
\* get_result_data() returned.
IrmpNew == [bits |-> <<>>, results |-> <<>>]

\* The library's time at which its last frame ended.
IrmpLast(lib) ==
    IF lib.results = <<>> THEN 0 ELSE lib.results[Len(lib.results)].end

\* The frames add_one_sample may complete with the sample it is given: one
\* that ends at this sample and starts after the frame before it.
IrmpResults(lib) ==
    IF Len(lib.results) >= MaxFrames THEN {}
    ELSE [proto_nr : {2}, proto_name : {"NEC"},
          address : {4660}, command : {1},
          repeat : BOOLEAN, release : BOOLEAN,
          start : IrmpLast(lib) .. Len(lib.bits), end : {Len(lib.bits)}]

\* add_one_sample(bit) without a frame.
IrmpFeed(lib, bit) == [lib EXCEPT !.bits = Append(@, bit)]

\* add_one_sample(bit) completing the frame r.
IrmpFrame(lib, bit, r) ==
    [lib EXCEPT !.bits = Append(@, bit), !.results = Append(@, r)]

----------------------------------------------------------------------------
(* decoders/ir_irmp/pd.py *)

\* Sample rates the host may report: 0 (unknown), multiples of the library's
\* rate, and a rate that is no multiple of it.
IrRates == {0, IrmpRate, IrmpRate + 1, 2 * IrmpRate, 3 * IrmpRate}

\* The instance after __init__.  pc: "init", "L115" (in the first wait()),
\* "L122" (in wait([{'skip': ...}])), "done", "error".  skip is the count
\* the pending wait was given, fed_at are the sample numbers whose value
\* went to add_one_sample.
IrNew ==
    [pc |-> "init", err |-> "none",
     irmp |-> IrmpNew, lib_rate |-> IrmpRate,
     samplerate |-> NoAttr, rate_factor |-> NoAttr, active |-> NoAttr,
     samplenum |-> 0, skip |-> 0,
     fed_at |-> <<>>, out_ann |-> <<>>]

\* The release word appended whenever the repeat word is.
FlagTextBoth(repeat, release, rep_txt, rel_txt) ==
    LET t == (IF repeat THEN <<rep_txt>> ELSE <<>>)
             \o (IF repeat THEN <<rel_txt>> ELSE <<>>)
    IN  IF t = <<>> THEN <<"-">> ELSE t

\* The flag text of one zoom level (lines 74-79): the words joined by a
\* blank, "-" when there is none.
FlagText(repeat, release, rep_txt, rel_txt) ==
    LET t == (IF repeat THEN <<rep_txt>> ELSE <<>>)
             \o (IF release THEN <<rel_txt>> ELSE <<>>)
    IN  IF t = <<>> THEN <<"-">> ELSE t

\* The timestamps of the library taken for sample numbers as they are.
putframeUnscaled(d, data) ==
    [d EXCEPT !.out_ann = Append(@,
        [ss |-> data.start, es |-> data.end, cls |-> 0, txts |-> <<>>])]

\* putframe(data): lines 51-90.  A text is the sequence of its parts; a
\* number is given with the format it is printed in.
putframe(d, data) ==
    LET ss == data.start * d.rate_factor
        es == data.end * d.rate_factor
        rep_txts == <<"repeat", "rep", "r">>
        rel_txts == <<"release", "rel", "R">>
        flg == [zoom \in 1..Len(rep_txts) |->
                   FlagText(data.repeat, data.release,
                            rep_txts[zoom], rel_txts[zoom])]
        nr   == data.proto_nr
        name == data.proto_name
        addr == data.address
        cmd  == data.command
        txts == <<
            <<"Protocol:", name, nr, "Address", <<"04x", addr>>,
              "Command:", <<"04x", cmd>>, "Flags:", flg[1]>>,
            <<"P:", name, nr, "Addr:", <<"x", addr>>,
              "Cmd:", <<"x", cmd>>, "Flg:", flg[2]>>,
            <<"P:", nr, "A:", <<"x", addr>>, "C:", <<"x", cmd>>, "F:", flg[2]>>,
            <<"C:", <<"x", cmd>>, "A:", <<"x", addr>>, flg[3]>>,
            <<"C:", <<"x", cmd>>>> >>
    IN  [d EXCEPT !.out_ann = Append(@,
            [ss |-> ss, es |-> es, cls |-> 0, txts |-> txts])]

\* start(), then decode() up to its first wait: lines 100-115.
IrBegin(d, polarity) ==
    LET d0 == [d EXCEPT !.out_ann = <<>>] IN
    IF d.samplerate = NoAttr THEN Raise(d0, "AttributeError")
    ELSE IF d.samplerate = 0 THEN Raise(d0, "SamplerateError")
    ELSE IF d.samplerate % d.lib_rate # 0 THEN Raise(d0, "SamplerateError")
    ELSE [d0 EXCEPT !.rate_factor = d.samplerate \div d.lib_rate,
                    !.active = IF polarity = "active-low" THEN 0 ELSE 1,
                    !.pc = "L115"]

\* Every sample taken: no decimation.
IrSkipOne(d) == 1

\* The count of the skip condition of line 122.
IrSkip(d) == d.rate_factor

\* The pin value given to the library as it is.
IrBitRaw(d, pinv) == pinv

\* The bit given to the library for the pin value ir: lines 117-118.
IrBit(d, pinv) == IF d.active = 1 THEN 1 - pinv ELSE pinv

\* A wait returned at sample sn with the pin value ir, and add_one_sample
\* returned False: lines 117-119, 122.
IrSampleNoFrame(d, pinv, sn) ==
    [d EXCEPT !.samplenum = sn,
              !.irmp = IrmpFeed(@, IrBit(d, pinv)),
              !.fed_at = Append(@, sn),
              !.skip = IrSkip(d),
              !.pc = "L122"]

\* The frame of the library taken without an annotation.
IrSampleFrameSilent(d, pinv, sn, r) ==
    [d EXCEPT !.samplenum = sn,
              !.irmp = IrmpFrame(@, IrBit(d, pinv), r),
              !.fed_at = Append(@, sn),
              !.skip = IrSkip(d),
              !.pc = "L122"]

\* A wait returned at sample sn with the pin value ir, and add_one_sample
\* returned True, get_result_data() being r: lines 117-122.
IrSampleFrame(d, pinv, sn, r) ==
    LET d1 == [d EXCEPT !.samplenum = sn,
                        !.irmp = IrmpFrame(@, IrBit(d, pinv), r),
                        !.fed_at = Append(@, sn)]
    IN  [putframe(d1, r) EXCEPT !.skip = IrSkip(d), !.pc = "L122"]

\* The pwm instance is not used in an ir_irmp session, nor the ir_irmp
\* instance in a pwm session.
Unused == [pc |-> "unused"]

----------------------------------------------------------------------------
(* A session with the pwm decoder *)

PwmInit ==
    /\ pwm = PwmNew
    /\ ir = Unused
    /\ samples = <<>>
    /\ options \in Polarities
    /\ run = 1

\* The host reports the sample rate, once, before the first run.
PwmMetadata ==
    /\ pwm.pc = "init" /\ pwm.samplerate = NoAttr /\ run = 1
    /\ \E v \in PwmRates : pwm' = metadata(pwm, v)
    /\ UNCHANGED <<ir, samples, options, run>>

\* The host starts the run: start(), then decode() up to its first wait.
PwmStart ==
    /\ pwm.pc = "init"
    /\ pwm' = start(pwm, options)
    /\ UNCHANGED <<ir, samples, options, run>>

\* A sample that is no edge: decode() stays blocked.
PwmNoEdge ==
    /\ PwmWaiting /\ Len(samples) < MaxSamples
    /\ \E b \in Bit :
        /\ ~IsEdge(samples, b)
        /\ samples' = Append(samples, b)
    /\ UNCHANGED <<pwm, ir, options, run>>

\* An edge while decode() is in the wait of line 97.
PwmFirstEdge ==
    /\ pwm.pc = "L97" /\ Len(samples) < MaxSamples
    /\ \E b \in Bit :
        /\ IsEdge(samples, b)
        /\ samples' = Append(samples, b)
        /\ pwm' = FirstEdge(pwm, b, Len(samples))
    /\ UNCHANGED <<ir, options, run>>

\* An edge while decode() is in the wait of line 99.
PwmSecondEdge ==
    /\ pwm.pc = "L99" /\ Len(samples) < MaxSamples
    /\ \E b \in Bit :
        /\ IsEdge(samples, b)
        /\ samples' = Append(samples, b)
        /\ pwm' = SecondEdge(pwm, b, Len(samples))
    /\ UNCHANGED <<ir, options, run>>

\* An edge of the start polarity while decode() is in the wait of line 105.
PwmRisingEdge ==
    /\ pwm.pc = "L105" /\ Len(samples) < MaxSamples
    /\ \E b \in Bit :
        /\ IsEdge(samples, b) /\ b = pwm.startedge
        /\ samples' = Append(samples, b)
        /\ pwm' = RisingEdge(pwm, Len(samples))
    /\ UNCHANGED <<ir, options, run>>

\* An edge of the other polarity while decode() is in the wait of line 105.
PwmFallingEdge ==
    /\ pwm.pc = "L105" /\ Len(samples) < MaxSamples
    /\ \E b \in Bit :
        /\ IsEdge(samples, b) /\ b # pwm.startedge
        /\ samples' = Append(samples, b)
        /\ pwm' = FallingEdge(pwm, Len(samples))
    /\ UNCHANGED <<ir, options, run>>

\* The capture ends.
PwmEndOfStream ==
    /\ PwmWaiting
    /\ pwm' = EndWait(pwm)
    /\ UNCHANGED <<ir, samples, options, run>>

\* The host loads another capture and uses the instance again.  The class
\* defines no reset(): no field of the instance is set back.
PwmReuse ==
    /\ pwm.pc = "done" /\ run < MaxRuns
    /\ pwm' = [pwm EXCEPT !.pc = "init", !.samplenum = 0]
    /\ samples' = <<>>
    /\ run' = run + 1
    /\ UNCHANGED <<ir, options>>

PwmNext ==
    \/ PwmMetadata
    \/ PwmStart
    \/ PwmNoEdge
    \/ PwmFirstEdge
    \/ PwmSecondEdge
    \/ PwmRisingEdge
    \/ PwmFallingEdge
    \/ PwmEndOfStream
    \/ PwmReuse

SpecPwm == PwmInit /\ [][PwmNext]_vars

----------------------------------------------------------------------------
(* A session with the ir_irmp decoder *)

IrWaiting == ir.pc \in {"L115", "L122"}

\* Whether the sample of index sn meets the pending wait: wait() returns at
\* the next sample, wait([{'skip': n}]) n samples after the last return.
IrMatch(d, sn) ==
    \/ d.pc = "L115"
    \/ d.pc = "L122" /\ sn = d.samplenum + d.skip

IrInit ==
    /\ ir = IrNew
    /\ pwm = Unused
    /\ samples = <<>>
    /\ options \in Polarities
    /\ run = 1

\* The host reports the sample rate, once, before the run.
IrMetadata ==
    /\ ir.pc = "init" /\ ir.samplerate = NoAttr
    /\ \E v \in IrRates : ir' = metadata(ir, v)
    /\ UNCHANGED <<pwm, samples, options, run>>

\* The host starts the run: start(), then decode() up to its first wait or
\* to the exception that ends it.
IrStart ==
    /\ ir.pc = "init"
    /\ ir' = IrBegin(ir, options)
    /\ UNCHANGED <<pwm, samples, options, run>>

\* A sample the pending skip passes over.
IrSkipped ==
    /\ IrWaiting /\ Len(samples) < MaxIrSamples
    /\ ~IrMatch(ir, Len(samples))
    /\ \E b \in Bit : samples' = Append(samples, b)
    /\ UNCHANGED <<pwm, ir, options, run>>

\* The sample the pending wait returns at; the library reports no frame.
IrFeed ==
    /\ IrWaiting /\ Len(samples) < MaxIrSamples
    /\ IrMatch(ir, Len(samples))
    /\ \E b \in Bit :
        /\ samples' = Append(samples, b)
        /\ ir' = IrSampleNoFrame(ir, b, Len(samples))
    /\ UNCHANGED <<pwm, options, run>>

\* The sample the pending wait returns at; the library reports a frame.
IrFrame ==
    /\ IrWaiting /\ Len(samples) < MaxIrSamples
    /\ IrMatch(ir, Len(samples))
    /\ \E b \in Bit :
        \E r \in IrmpResults(ir.irmp) :
            /\ samples' = Append(samples, b)
            /\ ir' = IrSampleFrame(ir, b, Len(samples), r)
    /\ UNCHANGED <<pwm, options, run>>

\* The capture ends.
IrEndOfStream ==
    /\ IrWaiting
    /\ ir' = EndWait(ir)
    /\ UNCHANGED <<pwm, samples, options, run>>

IrNext ==
    \/ IrMetadata
    \/ IrStart
    \/ IrSkipped
    \/ IrFeed
    \/ IrFrame
    \/ IrEndOfStream

SpecIr == IrInit /\ [][IrNext]_vars

----------------------------------------------------------------------------
(* The cycles of a capture, read off the samples themselves.  Sample        *)
(* numbers count from 0: samples[i] is the sample of number i - 1.          *)

\* The sample numbers at which the pin changes to v.
EdgesTo(s, v) == {i - 1 : i \in {j \in 2..Len(s) : s[j] = v /\ s[j - 1] # v}}

\* The k-th smallest element of the set of numbers S.
Nth(S, k) == CHOOSE x \in S : Cardinality({y \in S : y < x}) = k - 1

\* The smallest element of S above a.
Above(S, a) == CHOOSE x \in S : x > a /\ \A y \in S : y > a => x <= y

\* The number of complete cycles: the start-polarity edges but the first.
\* (Edges alternate, so a leading edge of the other polarity that is
\* discarded takes no start-polarity edge away.)
Cycles(s, e) ==
    LET n == Cardinality(EdgesTo(s, e)) IN IF n = 0 THEN 0 ELSE n - 1

\* Cycle k runs from the k-th start-polarity edge to the next one; its duty
\* ends at the edge of the other polarity in between.
CycleStart(s, e, k) == Nth(EdgesTo(s, e), k)

CycleEnd(s, e, k) == Nth(EdgesTo(s, e), k + 1)

CyclePeriod(s, e, k) == CycleEnd(s, e, k) - CycleStart(s, e, k)

CycleDuty(s, e, k) ==
    Above(EdgesTo(s, 1 - e), CycleStart(s, e, k)) - CycleStart(s, e, k)

\* The sum of the duty-cycle percentages of cycles 1..k.
RECURSIVE PercentSum(_, _, _)
PercentSum(s, e, k) ==
    IF k = 0 THEN <<0, 1>>
    ELSE RatAdd(PercentSum(s, e, k - 1),
                Rat(100 * CycleDuty(s, e, k), CyclePeriod(s, e, k)))

\* The records of class c among the annotations a.
OfClass(a, c) == SelectSeq(a, LAMBDA r : r.cls = c)

\* The run has started (decode() was entered in this run).
PwmRunning == pwm.pc \in {"L97", "L99", "L105", "done", "error"}

\* The first edge of the capture is of the other polarity than the start edge.
FirstEdgeIsOther ==
    /\ EdgesTo(samples, 1 - pwm.startedge) # {}
    /\ \A x \in EdgesTo(samples, pwm.startedge) :
          Nth(EdgesTo(samples, 1 - pwm.startedge), 1) < x

----------------------------------------------------------------------------
(* Claims *)

\* C1: when the capture holds N complete cycles, exactly N duty-cycle
\* annotations (class 0) and exactly N period annotations (class 1) have
\* been emitted, one of each per closing start-polarity edge.
C1_CycleCount ==
    PwmRunning =>
        /\ Len(OfClass(pwm.out_ann, 0)) = Cycles(samples, pwm.startedge)
        /\ Len(OfClass(pwm.out_ann, 1)) = Cycles(samples, pwm.startedge)

\* C2: the k-th meta value of a run is the arithmetic mean of the duty-cycle
\* percentages of cycles 1..k of that run, and once a meta value was emitted
\* num_cycles is the number of cycles closed in the run.
C2_RunningMean ==
    PwmRunning =>
        /\ pwm.out_average # <<>> => pwm.num_cycles = Len(pwm.out_average)
        /\ \A k \in 1..Len(pwm.out_average) :
              RatEq(pwm.out_average[k].value,
                    RatDivInt(PercentSum(samples, pwm.startedge, k), k))

\* C3: a first edge of the other polarity is discarded: nothing is emitted
\* before the second start-polarity edge, measurement begins at the first
\* start-polarity edge, and the first interval emitted starts there.
C3_FirstEdgeDiscarded ==
    (PwmRunning /\ FirstEdgeIsOther) =>
        LET starts == EdgesTo(samples, pwm.startedge) IN
        /\ starts = {} => pwm.pc \in {"L99", "done"}
        /\ Cardinality(starts) < 2 =>
              /\ pwm.out_ann = <<>>
              /\ pwm.out_binary = <<>>
              /\ pwm.out_average = <<>>
        /\ starts # {} => pwm.first_samplenum = Nth(starts, 1)
        /\ Cardinality(starts) = 1 => pwm.start_samplenum = Nth(starts, 1)
        /\ pwm.out_ann # <<>> => pwm.out_ann[1].ss = Nth(starts, 1)

\* C3's case: the first edge was discarded and a cycle was measured after it.
C3_Witness ==
    /\ PwmRunning /\ FirstEdgeIsOther
    /\ run = 1
    /\ Len(pwm.out_ann) >= 2
    /\ pwm.out_ann[1].ss > Nth(EdgesTo(samples, 1 - pwm.startedge), 1)

\* C4: the percentage of the k-th duty-cycle annotation is 100 * duty /
\* period of cycle k, as '%f' prints it: to the nearest millionth.
C4_Percentage ==
    PwmRunning =>
        \A k \in 1..Len(OfClass(pwm.out_ann, 0)) :
            LET txt    == OfClass(pwm.out_ann, 0)[k].txt
                period == CyclePeriod(samples, pwm.startedge, k)
                duty   == CycleDuty(samples, pwm.startedge, k)
            IN  /\ period > 0 /\ 0 <= duty /\ duty <= period
                /\ 2 * Abs(txt * period - 100000000 * duty) <= period

\* C4's case: a cycle whose duty is not half of its period was reported.
C4_Witness ==
    /\ PwmRunning
    /\ \E k \in 1..Len(OfClass(pwm.out_ann, 0)) :
          /\ 3 * CycleDuty(samples, pwm.startedge, k)
                = CyclePeriod(samples, pwm.startedge, k)
          /\ OfClass(pwm.out_ann, 0)[k].txt = 33333333

\* C5: the payload of the k-th binary record is one byte, floor(duty * 256 /
\* period) of cycle k clamped to 0..255, and its emission never fails for a
\* value that does not fit in a byte.
C5_BinaryByte ==
    PwmRunning =>
        /\ pwm.err # "ValueError"
        /\ \A k \in 1..Len(pwm.out_binary) :
            LET period == CyclePeriod(samples, pwm.startedge, k)
                duty   == CycleDuty(samples, pwm.startedge, k)
            IN  /\ period > 0 /\ 0 <= duty /\ duty <= period
                /\ pwm.out_binary[k].byte = Min(255, (duty * 256) \div period)
                /\ pwm.out_binary[k].byte \in 0..255

\* C5's case: a cycle with duty 2/3 was reported as the byte 170.
C5_Witness ==
    /\ PwmRunning
    /\ \E k \in 1..Len(pwm.out_binary) :
          /\ 3 * CycleDuty(samples, pwm.startedge, k)
                = 2 * CyclePeriod(samples, pwm.startedge, k)
          /\ pwm.out_binary[k].byte = 170

\* A pwm instance made anew, given the sample rate and started, then resumed
\* at each edge of the samples s from number i on.
RECURSIVE Replay(_, _, _)
Replay(d, s, i) ==
    IF i > Len(s) THEN d
    ELSE Replay(IF i > 1 /\ s[i] # s[i - 1] THEN Resume(d, s[i], i - 1) ELSE d,
                s, i + 1)

Fresh(rate, polarity, s) ==
    Replay(start([PwmNew EXCEPT !.samplerate = rate], polarity), s, 1)

\* The ir_irmp run has passed its checks of the sample rate.
IrRunning == ir.pc \in {"L115", "L122", "done"}

\* The sample rate fails the checks of the ir_irmp decoder.
IrBadRate(d) ==
    \/ d.samplerate = NoAttr
    \/ d.samplerate = 0
    \/ d.samplerate % d.lib_rate # 0

\* C6: with a sample rate that is unknown, zero or no multiple of the
\* library's rate, decode() ends in a SamplerateError before any wait, with
\* no bit given to the library and no annotation.
C6_RateRejected ==
    (ir.pc \in {"L115", "L122", "done", "error"} /\ IrBadRate(ir)) =>
        /\ ir.pc = "error" /\ ir.err = "SamplerateError"
        /\ samples = <<>>
        /\ ir.irmp.bits = <<>>
        /\ ir.fed_at = <<>>
        /\ ir.out_ann = <<>>

\* C7: after the checks of the sample rate rate_factor is an integer >= 1
\* with rate_factor * lib_rate = samplerate, the i-th bit given to the library
\* (i >= 0) is the sample of number first + i * rate_factor, and the cursor
\* stands at the last of them.
C7_Decimation ==
    IrRunning =>
        /\ ir.rate_factor >= 1
        /\ ir.rate_factor * ir.lib_rate = ir.samplerate
        /\ Len(ir.irmp.bits) = Len(ir.fed_at)
        /\ \A i \in 1..Len(ir.fed_at) :
              /\ ir.fed_at[i] = ir.fed_at[1] + (i - 1) * ir.rate_factor
              /\ ir.fed_at[i] < Len(samples)
        /\ \A i \in 2..Len(ir.fed_at) : ir.fed_at[i - 1] < ir.fed_at[i]
        /\ ir.fed_at # <<>> => ir.samplenum = ir.fed_at[Len(ir.fed_at)]

\* C7's case: three bits were given to the library at a rate factor above 1.
C7_Witness ==
    /\ IrRunning
    /\ ir.rate_factor > 1
    /\ Len(ir.fed_at) >= 3

\* C8: the annotation of each frame the library returned starts at start *
\* rate_factor and ends at end * rate_factor, rate_factor being samplerate /
\* lib_rate; so it starts no later than it ends.
C8_FrameScaled ==
    IrRunning =>
        /\ Len(ir.out_ann) = Len(ir.irmp.results)
        /\ \A k \in 1..Len(ir.out_ann) :
              LET factor == ir.samplerate \div ir.lib_rate
                  r == ir.irmp.results[k]
              IN  /\ ir.out_ann[k].ss = r.start * factor
                  /\ ir.out_ann[k].es = r.end * factor
                  /\ r.start <= r.end
                  /\ ir.out_ann[k].ss <= ir.out_ann[k].es

\* C8's case: a frame that took time in the library, at a rate factor above 1.
C8_Witness ==
    /\ IrRunning
    /\ ir.rate_factor > 1
    /\ \E k \in 1..Len(ir.out_ann) :
          /\ ir.irmp.results[k].start > 0
          /\ ir.irmp.results[k].start < ir.irmp.results[k].end
          /\ ir.out_ann[k].ss < ir.out_ann[k].es

\* C9: a pwm run without a sample rate from the host is rejected: it fails
\* before any sample is consumed and emits no record.
C9_NoRateRejected ==
    (PwmRunning /\ pwm.samplerate = NoAttr) =>
        /\ pwm.pc = "error"
        /\ samples = <<>>
        /\ pwm.out_ann = <<>>
        /\ pwm.out_binary = <<>>
        /\ pwm.out_average = <<>>

\* C10: an instance used for another run emits the records an instance made
\* anew emits for the same capture.
C10_ReuseAsFresh ==
    (PwmRunning /\ run > 1) =>
        LET f == Fresh(pwm.samplerate, options, samples) IN
        /\ pwm.out_ann = f.out_ann
        /\ pwm.out_binary = f.out_binary
        /\ pwm.out_average = f.out_average

\* The sample number of the very first edge of the capture, of either polarity.
FirstEdgeOf(s) == Nth(EdgesTo(s, 0) \cup EdgesTo(s, 1), 1)

\* C11 as stated: every meta record starts at the very first edge observed in
\* the run, also when that edge is of the other polarity, and ends at the
\* closing start-polarity edge.
C11_MetaFromVeryFirstEdge ==
    PwmRunning =>
        \A k \in 1..Len(pwm.out_average) :
            /\ pwm.out_average[k].ss = FirstEdgeOf(samples)
            /\ pwm.out_average[k].es = CycleEnd(samples, pwm.startedge, k)

\* C11 amended: every meta record starts at the first start-polarity edge of
\* the run (the first edge observed unless that edge was discarded) and the
\* k-th one ends at the edge that closes cycle k.
C11_MetaFromFirstStartEdge ==
    PwmRunning =>
        \A k \in 1..Len(pwm.out_average) :
            /\ pwm.out_average[k].ss = CycleStart(samples, pwm.startedge, 1)
            /\ pwm.out_average[k].es = CycleEnd(samples, pwm.startedge, k)

\* C11's case: a run whose first edge was discarded has emitted a meta
\* record, which starts after that edge.
C11_Witness ==
    /\ PwmRunning /\ FirstEdgeIsOther
    /\ Len(pwm.out_average) >= 1
    /\ pwm.out_average[1].ss > FirstEdgeOf(samples)
    /\ pwm.out_average[1].es > pwm.out_average[1].ss

\* C12: every binary record is a point-in-time tag: its start sample equals
\* its end sample, and that value is a sample number of the cycle it reports,
\* from the cycle's opening start edge to its closing start edge.
C12_BinaryTag ==
    PwmRunning =>
        \A k \in 1..Len(pwm.out_binary) :
            /\ pwm.out_binary[k].ss = pwm.out_binary[k].es
            /\ CycleStart(samples, pwm.startedge, k) <= pwm.out_binary[k].ss
            /\ pwm.out_binary[k].ss <= CycleEnd(samples, pwm.startedge, k)

\* C13: the run never ends in an error: it waits until the capture ends, and
\* a cycle whose closing start-polarity edge was not observed leaves no
\* duty-cycle, period, binary or meta record.
C13_CleanStop ==
    PwmRunning =>
        /\ pwm.pc \in {"L97", "L99", "L105", "done"}
        /\ pwm.err = "none"
        /\ PwmWaiting => ENABLED PwmEndOfStream
        /\ Len(OfClass(pwm.out_ann, 0)) <= Cycles(samples, pwm.startedge)
        /\ Len(OfClass(pwm.out_ann, 1)) <= Cycles(samples, pwm.startedge)
        /\ Len(pwm.out_binary) <= Cycles(samples, pwm.startedge)
        /\ Len(pwm.out_average) <= Cycles(samples, pwm.startedge)

\* The flag text of tier t (1..4) of an annotation's texts: its last part.
\* The fifth tier shows no flags.
TierFlags(txts, t) == txts[t][Len(txts[t])]

\* The words of a flag text.
Words(f) == {f[i] : i \in 1..Len(f)}

RelWords == {"release", "rel", "R"}

\* C14 as stated: for a frame with repeat and without release every tier that
\* shows flags has the flag text 'repeat', and no tier has a release word.
C14_RepeatIndex0 ==
    IrRunning =>
        \A k \in 1..Len(ir.out_ann) :
            (ir.irmp.results[k].repeat /\ ~ir.irmp.results[k].release) =>
                \A t \in 1..4 :
                    /\ TierFlags(ir.out_ann[k].txts, t) = <<"repeat">>
                    /\ Words(TierFlags(ir.out_ann[k].txts, t)) \cap RelWords = {}

\* C14 amended: for a frame with repeat and without release the flag text is
\* 'repeat' in the first tier, 'rep' in the second and third, 'r' in the
\* fourth, the fifth tier shows no flags, and no tier has a release word.
C14_RepeatPerTier ==
    IrRunning =>
        \A k \in 1..Len(ir.out_ann) :
            (ir.irmp.results[k].repeat /\ ~ir.irmp.results[k].release) =>
                LET txts == ir.out_ann[k].txts IN
                /\ Len(txts) = 5
                /\ TierFlags(txts, 1) = <<"repeat">>
                /\ TierFlags(txts, 2) = <<"rep">>
                /\ TierFlags(txts, 3) = <<"rep">>
                /\ TierFlags(txts, 4) = <<"r">>
                /\ txts[5] = <<"C:", <<"x", ir.irmp.results[k].command>>>>
                /\ \A t \in 1..4 : Words(TierFlags(txts, t)) \cap RelWords = {}

\* C14's case: a frame with repeat and without release was annotated.
C14_Witness ==
    /\ IrRunning
    /\ \E k \in 1..Len(ir.out_ann) :
          /\ ir.irmp.results[k].repeat /\ ~ir.irmp.results[k].release
          /\ Len(ir.out_ann[k].txts) = 5

\* n * 10^e >= m, without forming 10^e (n >= 1).
RECURSIVE ScaledGeq(_, _, _)
ScaledGeq(n, m, e) ==
    IF n >= m THEN TRUE
    ELSE IF e = 0 THEN FALSE
    ELSE ScaledGeq(n * 10, m, e - 1)

\* The unit u in which the period p = n / m seconds has 1 <= p / u < 1000;
\* s for p >= 1 s.
UnitOf(n, m) ==
    IF n >= m THEN "s"
    ELSE IF ScaledGeq(n, m, 3) THEN "ms"
    ELSE IF ScaledGeq(n, m, 6) THEN "us"
    ELSE IF ScaledGeq(n, m, 9) THEN "ns"
    ELSE IF ScaledGeq(n, m, 12) THEN "ps"
    ELSE "fs"

\* C15: the period text of cycle k, of period p = length / samplerate, is in s
\* for p >= 1 s and else in the unit u for which 1 <= p / u < 1000.
C15_PeriodUnit ==
    PwmRunning =>
        \A k \in 1..Len(OfClass(pwm.out_ann, 1)) :
            OfClass(pwm.out_ann, 1)[k].unit
                = UnitOf(CyclePeriod(samples, pwm.startedge, k), pwm.samplerate)

\* decode() is in the wait of line 105 and the step delivers an edge of the
\* polarity other than the start edge.
OppositeEdgeStep ==
    /\ pwm.pc = "L105"
    /\ Len(samples') = Len(samples) + 1
    /\ IsEdge(samples, samples'[Len(samples')])
    /\ samples'[Len(samples')] # pwm.startedge

\* C16: a wake-up on an edge of the other polarity in the main loop emits no
\* record on any output and sets end_samplenum to the current sample number;
\* start_samplenum, first_samplenum, num_cycles, average and the start edge
\* stay as they are, and decode() is back in the wait of line 105.
C16_OppositeEdgeOnlyBoundary ==
    [][OppositeEdgeStep =>
          /\ pwm'.out_ann = pwm.out_ann
          /\ pwm'.out_binary = pwm.out_binary
          /\ pwm'.out_average = pwm.out_average
          /\ pwm'.end_samplenum = Len(samples)
          /\ pwm'.samplenum = Len(samples)
          /\ pwm'.start_samplenum = pwm.start_samplenum
          /\ pwm'.first_samplenum = pwm.first_samplenum
          /\ pwm'.num_cycles = pwm.num_cycles
          /\ pwm'.average = pwm.average
          /\ pwm'.startedge = pwm.startedge
          /\ pwm'.samplerate = pwm.samplerate
          /\ pwm'.pc = "L105"]_vars

\* An edge of the other polarity was just taken in the main loop, after a
\* cycle of this run was reported.
C16_Witness ==
    /\ pwm.pc = "L105"
    /\ Len(samples) >= 2
    /\ samples[Len(samples)] # samples[Len(samples) - 1]
    /\ samples[Len(samples)] # pwm.startedge
    /\ pwm.end_samplenum = Len(samples) - 1
    /\ pwm.start_samplenum < pwm.end_samplenum
    /\ pwm.start_samplenum > pwm.first_samplenum
    /\ pwm.out_ann # <<>>

\* decode() is in the wait of line 105 and the step delivers an edge of the
\* start polarity: the edge that closes a cycle.
ClosingEdgeStep ==
    /\ pwm.pc = "L105"
    /\ Len(samples') = Len(samples) + 1
    /\ IsEdge(samples, samples'[Len(samples')])
    /\ samples'[Len(samples')] = pwm.startedge

\* C17: at every closing edge end_samplenum was set since the cycle began,
\* start_samplenum < end_samplenum < sample number of the edge, so the
\* period is positive and 0 < duty < period.
C17_BoundaryInsideCycle ==
    [][ClosingEdgeStep =>
          /\ pwm.end_samplenum # None
          /\ pwm.start_samplenum # None
          /\ pwm.start_samplenum < pwm.end_samplenum
          /\ pwm.end_samplenum < Len(samples)
          /\ Len(samples) - pwm.start_samplenum > 0
          /\ 0 < pwm.end_samplenum - pwm.start_samplenum
          /\ pwm.end_samplenum - pwm.start_samplenum
                 < Len(samples) - pwm.start_samplenum]_vars

\* C17, the edges: the first edge seen by the wait of line 105 after a start
\* edge is of the other polarity, and the edges seen there alternate.
C17_EdgesAlternate ==
    pwm.pc = "L105" =>
        /\ samples[pwm.samplenum + 1] =
              (IF pwm.samplenum = pwm.start_samplenum
               THEN pwm.startedge ELSE 1 - pwm.startedge)
        /\ \A i \in (pwm.samplenum + 2)..Len(samples) :
              samples[i] = samples[pwm.samplenum + 1]
        /\ pwm.samplenum # pwm.start_samplenum =>
              /\ pwm.end_samplenum = pwm.samplenum
              /\ pwm.start_samplenum < pwm.end_samplenum

\* A cycle of a reused instance was closed: the boundary used was set in
\* this run, after the run's first start edge.
C17_Witness ==
    /\ run >= 2
    /\ pwm.pc = "L105"
    /\ pwm.samplenum = Len(samples) - 1
    /\ pwm.start_samplenum = pwm.samplenum
    /\ pwm.first_samplenum < pwm.end_samplenum
    /\ pwm.end_samplenum < pwm.start_samplenum
    /\ pwm.out_binary # <<>>

\* The k-th annotation of class c spans cycle k of the capture, and the next
\* one of the class begins where it ends.
SpansCycles(c) ==
    LET a == OfClass(pwm.out_ann, c)
    IN  \A k \in 1..Len(a) :
            /\ a[k].ss = CycleStart(samples, pwm.startedge, k)
            /\ a[k].es = CycleEnd(samples, pwm.startedge, k)
            /\ a[k].ss < a[k].es
            /\ k < Len(a) => a[k + 1].ss = a[k].es

\* C18: the duty-cycle annotation and the period annotation of a cycle both
\* span the cycle, from its start-polarity edge to the next one, start < end;
\* the annotations of consecutive cycles are contiguous: the end of cycle
\* k's is the start of cycle k + 1's.
C18_SpanPreviousInterval ==
    PwmRunning => SpansCycles(0) /\ SpansCycles(1)

\* Two cycles were reported, with both annotations each.
C18_Witness ==
    /\ PwmRunning
    /\ Len(OfClass(pwm.out_ann, 0)) = 2
    /\ Len(OfClass(pwm.out_ann, 1)) = 2
    /\ OfClass(pwm.out_ann, 1)[1].es = OfClass(pwm.out_ann, 1)[2].ss
    /\ OfClass(pwm.out_ann, 0)[1].es = OfClass(pwm.out_ann, 0)[2].ss
    /\ OfClass(pwm.out_ann, 1)[1].ss < OfClass(pwm.out_ann, 1)[2].ss
    /\ OfClass(pwm.out_ann, 1)[2].ss < OfClass(pwm.out_ann, 1)[2].es

\* C19: every bit given to the library, the first one included, is the
\* complement of the sample it was taken from when the polarity option is
\* active-high and the sample itself when it is active-low; the polarity is
\* the same for the whole run.
C19_PolarityApplied ==
    IrRunning =>
        /\ ir.active = (IF options = "active-low" THEN 0 ELSE 1)
        /\ Len(ir.irmp.bits) = Len(ir.fed_at)
        /\ \A i \in 1..Len(ir.irmp.bits) :
              ir.irmp.bits[i] =
                  (IF options = "active-high"
                   THEN 1 - samples[ir.fed_at[i] + 1]
                   ELSE samples[ir.fed_at[i] + 1])

\* C19's case: an active-high run gave the library the complement of a high
\* first sample and of a low later one.
C19_Witness ==
    /\ IrRunning
    /\ options = "active-high"
    /\ Len(ir.irmp.bits) >= 2
    /\ samples[ir.fed_at[1] + 1] = 1 /\ ir.irmp.bits[1] = 0
    /\ \E i \in 2..Len(ir.irmp.bits) :
          samples[ir.fed_at[i] + 1] = 0 /\ ir.irmp.bits[i] = 1

\* C20: a feed that returns true appends exactly one annotation in the same
\* wake-up, with five texts; any other step of the run appends none.  So
\* the annotations number the true returns so far, and after the end of the
\* stream no frame the library had not completed is annotated.
C20_OnePerFrame ==
    [][IrRunning =>
          LET frames == Len(ir'.irmp.results) - Len(ir.irmp.results)
          IN  /\ frames \in {0, 1}
              /\ Len(ir'.out_ann) = Len(ir.out_ann) + frames
              /\ SubSeq(ir'.out_ann, 1, Len(ir.out_ann)) = ir.out_ann
              /\ frames = 1 =>
                    /\ Len(ir'.irmp.bits) = Len(ir.irmp.bits) + 1
                    /\ Len(samples') = Len(samples) + 1
                    /\ Len(ir'.out_ann[Len(ir'.out_ann)].txts) = 5
              /\ Len(ir'.out_ann) = Len(ir'.irmp.results)]_vars

\* C20's case: the stream ended after a frame was annotated and two more
\* bits, of no complete frame, were given to the library.
C20_Witness ==
    /\ ir.pc = "done"
    /\ Len(ir.irmp.results) = 1
    /\ Len(ir.out_ann) = 1
    /\ Len(ir.out_ann[1].txts) = 5
    /\ Len(ir.irmp.bits) >= ir.irmp.results[1].end + 2
    /\ ir.irmp.results[1].end >= 2

====
